---- MODULE Spec2Model ----
(***************************************************************************)
(* Model of compute_spin_image_with_support_angle (src/spin_image.py).     *)
(*                                                                         *)
(* Numbers.  The program computes in float64.  The model computes in exact *)
(* fixed point:                                                            *)
(*   - coordinates, normals and bin_size are integers (one length unit);   *)
(*   - np.cos is taken at whole quarter turns, where the cosine is an      *)
(*     integer, so support_angle counts quarter turns (2 = pi);            *)
(*   - a square root is rounded down to a multiple of 1/SqrtPrec;          *)
(*   - bin coordinates i_f, j_f are numerators over Den, and every bin of  *)
(*     the image is a numerator over Den * Den (one unit of mass).         *)
(* Rounding of float64 products and sums is not modelled.                  *)
(***************************************************************************)
EXTENDS Integers, Sequences, FiniteSets

VARIABLES
    resolution,     \* parameter, line 6
    bin_size,       \* parameter, line 6
    support_angle,  \* parameter, line 6, in quarter turns
    O,              \* line 23
    n_A,            \* line 24
    points,         \* line 32
    normals,        \* line 33
    SI,             \* line 29
    cos_threshold,  \* line 34
    k,              \* pairs the loop of line 36 has taken from zip
    pc,             \* "call", "loop", "done" (returned) or "raised"
    branch          \* the path the last neighbor took through lines 38-59

vars == <<resolution, bin_size, support_angle, O, n_A, points, normals,
          SI, cos_threshold, k, pc, branch>>

args == <<resolution, bin_size, support_angle, O, n_A, points, normals>>

----------------------------------------------------------------------------
(* Bounds of the model and the inputs a call is drawn from *)

MaxResolution == 4
MaxNeighbors == 2
SqrtPrec == 2

Resolutions == 1 .. MaxResolution
BinSizes == {-1, 0, 1, 2}
SupportAngles == 0 .. 3
RefPoints == {<<0, 0, 0>>}
RefNormals == {<<0, 0, 1>>, <<0, 0, 2>>}
Positions == {<<0, 0, 0>>, <<0, 0, 1>>, <<2, 2, -1>>}
Normals == {<<0, 0, 1>>, <<0, 0, -1>>, <<1, 0, 0>>}

SeqsUpTo(S, n) == UNION {[1 .. m -> S] : m \in 0 .. n}

----------------------------------------------------------------------------
(* Arithmetic *)

Abs(n) == IF n < 0 THEN -n ELSE n

Sgn(n) == IF n < 0 THEN -1 ELSE IF n = 0 THEN 0 ELSE 1

Min(a, b) == IF a <= b THEN a ELSE b

Dot(u, v) == u[1] * v[1] + u[2] * v[2] + u[3] * v[3]

Sub(u, v) == <<u[1] - v[1], u[2] - v[2], u[3] - v[3]>>

\* floor of the square root of a natural number
ISqrt(n) == CHOOSE r \in 0 .. n : r * r <= n /\ n < (r + 1) * (r + 1)

\* np.cos at support_angle quarter turns
Cos(a) ==
    CASE a % 4 = 0 -> 1
      [] a % 4 = 1 -> 0
      [] a % 4 = 2 -> -1
      [] a % 4 = 3 -> 0

\* np.linalg.norm(d), a numerator over SqrtPrec
Norm(d) == ISqrt(Dot(d, d) * SqrtPrec * SqrtPrec)

----------------------------------------------------------------------------
(* The loop body, lines 38-59, for a neighbor x with normal n_B *)

d(x) == Sub(x, O)

beta(x) == Dot(n_A, d(x))

\* np.linalg.norm(d) ** 2 - np.dot(n_A, d) ** 2, a numerator over SqrtPrec^2
Radicand(x) == Norm(d(x)) * Norm(d(x)) - beta(x) * beta(x) * SqrtPrec * SqrtPrec

\* np.sqrt of a negative number is nan
AlphaIsNaN(x) == Radicand(x) < 0

\* alpha, a numerator over SqrtPrec
alpha(x) == ISqrt(Radicand(x))

\* common denominator of resolution / 2 - beta / bin_size and alpha / bin_size
Den == 2 * SqrtPrec * Abs(bin_size)

\* resolution - beta / bin_size: the row not centred on resolution / 2
RowCoordUncentred(x) ==
    SqrtPrec * (2 * resolution * Abs(bin_size) - 2 * Sgn(bin_size) * beta(x))

\* resolution / 2 - beta / bin_size, a numerator over Den
RowCoord(x) == SqrtPrec * (resolution * Abs(bin_size) - 2 * Sgn(bin_size) * beta(x))

\* alpha / bin_size, a numerator over Den
ColCoord(x) == 2 * Sgn(bin_size) * alpha(x)

i(x) == RowCoord(x) \div Den

j(x) == ColCoord(x) \div Den

\* the angle test with <= for <
SkipByAngleInclusive(n_B) == Dot(n_A, n_B) <= cos_threshold

SkipByAngle(n_B) == Dot(n_A, n_B) < cos_threshold

\* the bounds check with < resolution for < resolution - 1
InBoundsToLastBin(x) ==
    /\ 0 <= i(x) /\ i(x) < resolution
    /\ 0 <= j(x) /\ j(x) < resolution

\* the bounds check without its lower bounds
InBoundsNoLower(x) ==
    /\ i(x) < resolution - 1
    /\ j(x) < resolution - 1

InBounds(x) ==
    /\ 0 <= i(x) /\ i(x) < resolution - 1
    /\ 0 <= j(x) /\ j(x) < resolution - 1

\* a and b, numerators over Den
a(x) == ColCoord(x) - j(x) * Den

b(x) == RowCoord(x) - i(x) * Den

\* numpy indexing: a negative index counts from the end
Wrap(n) == IF n < 0 THEN n + resolution ELSE n

\* SI[r, c] = w
AddAtAssign(grid, r, c, w) ==
    IF <<Wrap(r), Wrap(c)>> \in DOMAIN grid
    THEN [grid EXCEPT ![<<Wrap(r), Wrap(c)>>] = w]
    ELSE grid

\* SI[r, c] += w
AddAt(grid, r, c, w) ==
    IF <<Wrap(r), Wrap(c)>> \in DOMAIN grid
    THEN [grid EXCEPT ![<<Wrap(r), Wrap(c)>>] = @ + w]
    ELSE grid

\* lines 56-58 without line 59
AccumulatedNoCorner(grid, x) ==
    LET g1 == AddAt(grid, i(x), j(x), (Den - a(x)) * (Den - b(x)))
        g2 == AddAt(g1, i(x) + 1, j(x), a(x) * (Den - b(x)))
    IN  AddAt(g2, i(x), j(x) + 1, (Den - a(x)) * b(x))

\* lines 56-59, weights as numerators over Den * Den
Accumulated(grid, x) ==
    LET g1 == AddAt(grid, i(x), j(x), (Den - a(x)) * (Den - b(x)))
        g2 == AddAt(g1, i(x) + 1, j(x), a(x) * (Den - b(x)))
        g3 == AddAt(g2, i(x), j(x) + 1, (Den - a(x)) * b(x))
    IN  AddAt(g3, i(x) + 1, j(x) + 1, a(x) * b(x))

\* the path the loop body takes for one neighbor
Branch(x, n_B) ==
    IF SkipByAngle(n_B) THEN "skip"
    ELSE IF bin_size = 0 \/ AlphaIsNaN(x) THEN "raise"
    ELSE IF InBounds(x) THEN "accumulate"
    ELSE "drop"

\* number of pairs zip(points, normals) yields
ZipLen == Min(Len(points), Len(normals))

Cells == (0 .. resolution - 1) \X (0 .. resolution - 1)

Zeros == [c \in Cells |-> 0]

----------------------------------------------------------------------------
(* The call *)

Init ==
    /\ resolution \in Resolutions
    /\ bin_size \in BinSizes
    /\ support_angle \in SupportAngles
    /\ O \in RefPoints
    /\ n_A \in RefNormals
    /\ points \in SeqsUpTo(Positions, MaxNeighbors)
    /\ normals \in SeqsUpTo(Normals, MaxNeighbors)
    /\ SI = <<>>
    /\ cos_threshold = 0
    /\ k = 0
    /\ pc = "call"
    /\ branch = "none"

\* lines 23-34
Setup ==
    /\ pc = "call"
    /\ SI' = Zeros
    /\ cos_threshold' = Cos(support_angle)
    /\ pc' = "loop"
    /\ UNCHANGED <<args, k, branch>>

\* lines 38-39
Skip ==
    /\ pc = "loop" /\ k < ZipLen
    /\ Branch(points[k + 1], normals[k + 1]) = "skip"
    /\ k' = k + 1
    /\ branch' = "skip"
    /\ UNCHANGED <<args, SI, cos_threshold, pc>>

\* lines 43-48: int() of an infinity or of nan raises
Raise ==
    /\ pc = "loop" /\ k < ZipLen
    /\ Branch(points[k + 1], normals[k + 1]) = "raise"
    /\ k' = k + 1
    /\ branch' = "raise"
    /\ pc' = "raised"
    /\ UNCHANGED <<args, SI, cos_threshold>>

\* line 50, condition false
Drop ==
    /\ pc = "loop" /\ k < ZipLen
    /\ Branch(points[k + 1], normals[k + 1]) = "drop"
    /\ k' = k + 1
    /\ branch' = "drop"
    /\ UNCHANGED <<args, SI, cos_threshold, pc>>

\* lines 50-59
Accumulate ==
    /\ pc = "loop" /\ k < ZipLen
    /\ Branch(points[k + 1], normals[k + 1]) = "accumulate"
    /\ SI' = Accumulated(SI, points[k + 1])
    /\ k' = k + 1
    /\ branch' = "accumulate"
    /\ UNCHANGED <<args, cos_threshold, pc>>

\* line 61
Return ==
    /\ pc = "loop" /\ k = ZipLen
    /\ pc' = "done"
    /\ UNCHANGED <<args, SI, cos_threshold, k, branch>>

Next == Setup \/ Skip \/ Raise \/ Drop \/ Accumulate \/ Return

Spec == Init /\ [][Next]_vars

----------------------------------------------------------------------------
(* The function as a whole, lines 29-61: what the call comes to when the   *)
(* loop runs over the pairs xs[n], ns[n] in order: <<"done", grid>> when   *)
(* it returns, <<"raised">> when a neighbor raises                         *)

RECURSIVE Loop(_, _, _, _)
Loop(grid, xs, ns, n) ==
    IF n > Len(xs) THEN <<"done", grid>>
    ELSE LET br == Branch(xs[n], ns[n])
         IN  IF br = "raise" THEN <<"raised">>
             ELSE IF br = "accumulate" THEN Loop(Accumulated(grid, xs[n]), xs, ns, n + 1)
             ELSE Loop(grid, xs, ns, n + 1)

----------------------------------------------------------------------------
(* Vocabulary of the properties *)

Processed == 1 .. k

\* the angle test of line 38 lets neighbor n through
PassesAngle(n) == Dot(n_A, normals[n]) >= cos_threshold

\* i and j of neighbor n are numbers
Binned(n) == bin_size # 0 /\ ~AlphaIsNaN(points[n])

InRange(n) ==
    /\ 0 <= i(points[n]) /\ i(points[n]) < resolution - 1
    /\ 0 <= j(points[n]) /\ j(points[n]) < resolution - 1

AcceptedNb(n) == PassesAngle(n) /\ Binned(n) /\ InRange(n)

RejectedNb(n) == ~PassesAngle(n) \/ (Binned(n) /\ ~InRange(n))

AcceptedSet == {n \in Processed : AcceptedNb(n)}

\* one unit of mass
Unit == Den * Den

RECURSIVE SumRow(_, _, _)
SumRow(grid, r, c) == IF c < 0 THEN 0 ELSE grid[<<r, c>>] + SumRow(grid, r, c - 1)

RECURSIVE SumCol(_, _, _)
SumCol(grid, r, c) == IF r < 0 THEN 0 ELSE grid[<<r, c>>] + SumCol(grid, r - 1, c)

RowMass(grid, r) == SumRow(grid, r, resolution - 1)

ColMass(grid, c) == SumCol(grid, resolution - 1, c)

RECURSIVE SumRows(_, _)
SumRows(grid, r) == IF r < 0 THEN 0 ELSE RowMass(grid, r) + SumRows(grid, r - 1)

TotalMass(grid) == SumRows(grid, resolution - 1)

ValidConfig == resolution >= 2 /\ bin_size > 0 /\ 0 <= support_angle /\ support_angle <= 2

IsUnit(v) == Dot(v, v) = 1

Started == pc # "call"

----------------------------------------------------------------------------
(* C1 *)

\* C1: every accepted neighbor adds four weights, each in [0,1], that sum
\* to one unit; after any number of neighbors the bins sum to the number of
\* accepted neighbors and no bin is negative.
C1_MassConservation ==
    Started =>
        /\ \A c \in DOMAIN SI : SI[c] >= 0
        /\ TotalMass(SI) = Unit * Cardinality(AcceptedSet)
        /\ \A n \in AcceptedSet :
              LET x == points[n]
                  g == Accumulated(Zeros, x)
              IN  /\ \A c \in DOMAIN g : 0 <= g[c] /\ g[c] <= Unit
                  /\ TotalMass(g) = Unit
                  /\ {c \in DOMAIN g : g[c] # 0} \subseteq
                        {<<i(x), j(x)>>, <<i(x) + 1, j(x)>>,
                         <<i(x), j(x) + 1>>, <<i(x) + 1, j(x) + 1>>}

C1_Witness ==
    /\ pc = "done"
    /\ Cardinality(AcceptedSet) = 2
    /\ \E n \in AcceptedSet : a(points[n]) > 0 /\ b(points[n]) > 0

----------------------------------------------------------------------------
(* C2 *)

\* C2: a call whose configuration has resolution < 2, bin_size <= 0 or a
\* support angle outside [0, pi] never returns a grid.
C2_InvalidConfigFails == pc = "done" => ValidConfig

----------------------------------------------------------------------------
(* C3 *)

\* C3: when points and normals differ in length the call (of a valid
\* configuration) fails: it returns no grid and processes no pair of a
\* truncated prefix.
C3_LengthMismatchFails ==
    (ValidConfig /\ Len(points) # Len(normals)) => pc # "done" /\ k = 0

----------------------------------------------------------------------------
(* C4 *)

\* the bins a step of the loop writes
Written == {c \in DOMAIN SI : SI'[c] # SI[c]}

\* C4: a neighbor is accumulated only if 0 <= i < resolution-1 and
\* 0 <= j < resolution-1, and then writes only bins among (i,j), (i+1,j),
\* (i,j+1), (i+1,j+1), all inside the resolution x resolution grid.
C4_IndexSafety ==
    [][pc = "loop" =>
          /\ DOMAIN SI' = Cells
          /\ (branch' = "accumulate" /\ k' = k + 1) => InRange(k')
          /\ Written # {} =>
                /\ k' = k + 1 /\ InRange(k')
                /\ Written \subseteq
                      {<<i(points[k']), j(points[k'])>>,
                       <<i(points[k']) + 1, j(points[k'])>>,
                       <<i(points[k']), j(points[k']) + 1>>,
                       <<i(points[k']) + 1, j(points[k']) + 1>>}
                /\ Written \subseteq Cells]_vars

\* a neighbor that passes the angle test with i = resolution - 1 was dropped
C4_Witness ==
    /\ k > 0 /\ branch = "drop"
    /\ i(points[k]) = resolution - 1
    /\ 0 <= j(points[k]) /\ j(points[k]) < resolution - 1

----------------------------------------------------------------------------
(* C5 *)

\* C5: a neighbor that fails the angle test or the bounds check changes no
\* bin and raises nothing; a call in which every neighbor is rejected (or
\* there is none) returns the all-zero resolution x resolution grid.
C5_RejectedAreNoOps ==
    [][/\ (pc = "loop" /\ k' = k + 1 /\ RejectedNb(k')) =>
              SI' = SI /\ pc' = "loop"
       /\ (pc = "loop" /\ k = ZipLen /\ \A n \in 1 .. ZipLen : RejectedNb(n)) =>
              pc' = "done" /\ SI' = [c \in Cells |-> 0]]_vars

\* a call returned after an angle-rejected and a bounds-rejected neighbor
C5_Witness ==
    /\ pc = "done" /\ k = 2
    /\ ~PassesAngle(1)
    /\ PassesAngle(2) /\ Binned(2) /\ ~InRange(2)

----------------------------------------------------------------------------
(* C6 *)

\* C6: the threshold is cos(support_angle); a neighbor is skipped if and
\* only if dot(n_A, n_B) is strictly below it; at support_angle = pi the
\* threshold is -1 and no unit normal is skipped against a unit n_A.
C6_AngleFilter ==
    Started =>
        /\ support_angle = 0 => cos_threshold = 1
        /\ support_angle = 2 => cos_threshold = -1
        /\ k > 0 => (branch = "skip" <=> Dot(n_A, normals[k]) < cos_threshold)
        /\ (k > 0 /\ support_angle = 2 /\ IsUnit(n_A) /\ IsUnit(normals[k])) =>
              branch # "skip"

\* a neighbor exactly at the threshold went on to binning
C6_Witness ==
    /\ k > 0 /\ Dot(n_A, normals[k]) = cos_threshold
    /\ branch = "accumulate"

----------------------------------------------------------------------------
(* C7 *)

\* the loop takes the reference point itself as its next neighbor, and the
\* angle test lets it through
SelfPointStep ==
    /\ pc = "loop" /\ k' = k + 1
    /\ points[k'] = O /\ PassesAngle(k')
    /\ bin_size > 0 /\ resolution >= 2

SelfPointEffect ==
    /\ beta(points[k']) = 0 /\ alpha(points[k']) = 0
    /\ i(points[k']) = resolution \div 2 /\ j(points[k']) = 0
    /\ pc' = "loop"
    /\ InRange(k') => SI' = [SI EXCEPT ![<<resolution \div 2, 0>>] = @ + Unit]

\* C7 as stated: for every resolution >= 2 and bin_size > 0 the self point
\* has alpha = beta = 0 and, when in bounds, puts its whole unit of mass
\* into bin (resolution/2, 0) and nothing elsewhere.
C7_SelfPointAnyResolution == [][SelfPointStep => SelfPointEffect]_vars

\* C7 amended: the same for every even resolution >= 2.
C7_SelfPointEvenResolution ==
    [][(SelfPointStep /\ resolution % 2 = 0) => SelfPointEffect]_vars

C7_Witness ==
    /\ k > 0 /\ points[k] = O /\ branch = "accumulate"
    /\ bin_size > 0 /\ resolution % 2 = 0
    /\ SI[<<resolution \div 2, 0>>] >= Unit

----------------------------------------------------------------------------
(* C8 *)

\* C8: under a valid configuration the call never raises, whatever the
\* reference normal and the neighbor positions: alpha is always a number.
C8_NeverRaises == ValidConfig => pc # "raised"

----------------------------------------------------------------------------
(* C9 *)

\* mass the accepted neighbors among the first n owe to row r when the
\* row offset b splits a unit between rows i and i+1
RECURSIVE OwedToRow(_, _)
OwedToRow(n, r) ==
    IF n = 0 THEN 0
    ELSE OwedToRow(n - 1, r) +
         (IF ~AcceptedNb(n) THEN 0
          ELSE IF r = i(points[n]) THEN (Den - b(points[n])) * Den
          ELSE IF r = i(points[n]) + 1 THEN b(points[n]) * Den
          ELSE 0)

\* the same for column c and the column offset a
RECURSIVE OwedToCol(_, _)
OwedToCol(n, c) ==
    IF n = 0 THEN 0
    ELSE OwedToCol(n - 1, c) +
         (IF ~AcceptedNb(n) THEN 0
          ELSE IF c = j(points[n]) THEN (Den - a(points[n])) * Den
          ELSE IF c = j(points[n]) + 1 THEN a(points[n]) * Den
          ELSE 0)

\* C9: each accepted neighbor puts mass b = i_f - i into row i+1 and mass
\* a = j_f - j into column j+1, so every row and column holds what the
\* accepted neighbors owe it.
C9_MassFollowsAxes ==
    (Started /\ ValidConfig) =>
        \A r \in 0 .. resolution - 1 :
            /\ RowMass(SI, r) = OwedToRow(k, r)
            /\ ColMass(SI, r) = OwedToCol(k, r)

----------------------------------------------------------------------------
(* C10 *)

Perms(n) == {f \in [1 .. n -> 1 .. n] : \A p, q \in 1 .. n : f[p] = f[q] => p = q}

\* the outcome of the call on the zipped pairs taken in the order f
Outcome(f) ==
    Loop(Zeros, [n \in 1 .. ZipLen |-> points[f[n]]],
                [n \in 1 .. ZipLen |-> normals[f[n]]], 1)

\* C10: the call over any permutation of the same neighbors ends as this
\* call ended: with the same grid, or raising.
C10_OrderIndependent ==
    pc \in {"done", "raised"} =>
        \A f \in Perms(ZipLen) :
            Outcome(f) = (IF pc = "raised" THEN <<"raised">> ELSE <<"done", SI>>)

\* two different accepted neighbors that share a bin
C10_Witness ==
    /\ pc = "done" /\ ZipLen = 2
    /\ AcceptedNb(1) /\ AcceptedNb(2)
    /\ points[1] # points[2]
    /\ \E c \in Cells : Accumulated(Zeros, points[1])[c] > 0
                        /\ Accumulated(Zeros, points[2])[c] > 0

====
